---- MODULE Spec2Model ----
(***************************************************************************)
(* AgendaPrime, static/agenda.js: the DOMContentLoaded handler that reads  *)
(* the JSON event list embedded in the page and hands it, with a fixed     *)
(* configuration, to the FullCalendar constructor, then renders the view.  *)
(*                                                                         *)
(* The page (the two elements the handler looks up and the text of the     *)
(* data container) is the input.  The text is a sequence of JSON tokens:   *)
(* brackets, comma, two event objects and a number.  JSON.parse is         *)
(* modelled by a recursive-descent parser over those tokens.               *)
(***************************************************************************)
EXTENDS Integers, Sequences, FiniteSets, TLC

\* Longest text content of the data container, in tokens.
MaxLen == 5

\* The event objects that may occur in the embedded JSON ({"title": ...}).
Events == {"e1", "e2"}

\* The JSON tokens of the text content; "7" is a number literal.
Tokens == {"[", "]", ","} \cup Events \cup {"7"}

Texts == UNION {[1..n -> Tokens] : n \in 0..MaxLen}

(***************************************************************************)
(* JavaScript values: one record shape for every value, so that any two    *)
(* values can be compared.                                                 *)
(***************************************************************************)
Value(kind, atom, items) == [kind |-> kind, atom |-> atom, items |-> items]

Undefined == Value("undefined", "", <<>>)

ArrayValue(items) == Value("array", "", items)

ObjectValue(e) == Value("object", e, <<>>)

NumberValue(n) == Value("number", n, <<>>)

\* The exception JSON.parse throws.
SyntaxError == Value("SyntaxError", "", <<>>)

ParseFail == [ok |-> FALSE, value |-> SyntaxError, rest |-> <<>>]

ParseOk(v, rest) == [ok |-> TRUE, value |-> v, rest |-> rest]

RECURSIVE ParseValue(_)
RECURSIVE ParseElements(_, _)

\* One JSON value at the head of s; rest is what follows it.
ParseValue(s) ==
    IF s = <<>> THEN ParseFail
    ELSE IF Head(s) \in Events THEN ParseOk(ObjectValue(Head(s)), Tail(s))
    ELSE IF Head(s) = "7" THEN ParseOk(NumberValue(Head(s)), Tail(s))
    ELSE IF Head(s) = "["
         THEN IF Tail(s) # <<>> /\ Head(Tail(s)) = "]"
              THEN ParseOk(ArrayValue(<<>>), Tail(Tail(s)))
              ELSE ParseElements(Tail(s), <<>>)
    ELSE ParseFail

\* The elements of an array after its "[": value ("," value)* "]".
ParseElements(s, acc) ==
    LET v == ParseValue(s) IN
    IF ~v.ok \/ v.rest = <<>> THEN ParseFail
    ELSE IF Head(v.rest) = "," THEN ParseElements(Tail(v.rest), Append(acc, v.value))
    ELSE IF Head(v.rest) = "]" THEN ParseOk(ArrayValue(Append(acc, v.value)), Tail(v.rest))
    ELSE ParseFail

\* JSON.parse(text): one value and nothing after it, or SyntaxError.
JSONParse(text) ==
    LET r == ParseValue(text) IN
    IF r.ok /\ r.rest = <<>> THEN r ELSE ParseFail

(***************************************************************************)
(* The FullCalendar collaborator (external to the repository): a           *)
(* constructor taking the mount element and the options, and render().     *)
(* The views it has constructed and the render() calls it has received     *)
(* are recorded.  DOM mutation happens at render(); with no mount element  *)
(* the failure surfaces there, as an exception or as nothing being shown.  *)
(***************************************************************************)
NewCalendar(el, options) == [el |-> el, options |-> options]

RenderOutcomes(el) == IF el = "calendar" THEN {"shown"} ELSE {"TypeError", "nothing"}

\* document.getElementById(id) on a page where the element is present or not.
GetElementById(id, present) == IF present THEN id ELSE "null"

\* console.error(text, ...args) / console.log(text, ...args)
LogEntry(level, text, args) == [level |-> level, text |-> text, args |-> args]

MsgMissing == "Elements events-data introuvable !"

MsgLoaded == "Evenements charges :"

MsgParseError == "Erreur lors de l'analyse des evenements :"

\* Mutant of Config: the parsed events are not handed to the view.
ConfigNoEvents(ev) ==
    [ initialView     |-> "timeGridWeek",
      headerToolbar   |-> [ left   |-> "prev,next today",
                            center |-> "title",
                            right  |-> "dayGridMonth,timeGridWeek,timeGridDay,listWeek" ],
      events          |-> ArrayValue(<<>>),
      eventDisplay    |-> "block",
      eventTimeFormat |-> [ hour |-> "2-digit", minute |-> "2-digit", hour12 |-> FALSE ],
      locale          |-> "fr",
      height          |-> "auto",
      allDaySlot      |-> FALSE,
      slotMinTime     |-> "07:00:00",
      slotMaxTime     |-> "20:00:00" ]

\* Mutant of Config: the all-day row is shown when there are no events.
ConfigAllDayWhenEmpty(ev) ==
    [ initialView     |-> "timeGridWeek",
      headerToolbar   |-> [ left   |-> "prev,next today",
                            center |-> "title",
                            right  |-> "dayGridMonth,timeGridWeek,timeGridDay,listWeek" ],
      events          |-> ev,
      eventDisplay    |-> "block",
      eventTimeFormat |-> [ hour |-> "2-digit", minute |-> "2-digit", hour12 |-> FALSE ],
      locale          |-> "fr",
      height          |-> "auto",
      allDaySlot      |-> (ev.items = <<>>),
      slotMinTime     |-> "07:00:00",
      slotMaxTime     |-> "20:00:00" ]

\* The options object of lines 19-38.
Config(ev) ==
    [ initialView     |-> "timeGridWeek",
      headerToolbar   |-> [ left   |-> "prev,next today",
                            center |-> "title",
                            right  |-> "dayGridMonth,timeGridWeek,timeGridDay,listWeek" ],
      events          |-> ev,
      eventDisplay    |-> "block",
      eventTimeFormat |-> [ hour |-> "2-digit", minute |-> "2-digit", hour12 |-> FALSE ],
      locale          |-> "fr",
      height          |-> "auto",
      allDaySlot      |-> FALSE,
      slotMinTime     |-> "07:00:00",
      slotMaxTime     |-> "20:00:00" ]

VARIABLES
    calendarPresent,  \* the page has an element with id "calendar"
    dataPresent,      \* the page has an element with id "events-data"
    textContent,      \* text content of the data container (<<>> when absent)
    readyState,       \* "loading" until DOMContentLoaded is dispatched
    listeners,        \* handlers registered for DOMContentLoaded
    scriptRanAt,      \* readyState when agenda.js was executed, or "never"
    pc,               \* position of the handler
    calendarEl,       \* local of the handler (line 2)
    eventsData,       \* local of the handler (line 3)
    events,           \* local of the handler (line 11)
    console,          \* the log sink: entries in emission order
    calendars,        \* views constructed by new FullCalendar.Calendar
    renders,          \* render() calls: index of the view each was made on
    shown,            \* a calendar is visible in the mount element
    thrown,           \* exception that left the handler, or "none"
    invocations,      \* number of times the handler was entered
    trace,            \* steps of the handler performed, in order
    prior             \* what the previous load of the page did (SpecPair)

page == <<calendarPresent, dataPresent, textContent>>

lifecycle == <<readyState, listeners, scriptRanAt>>

locals == <<calendarEl, eventsData, events>>

effects == <<console, calendars, renders, shown, thrown>>

vars == <<page, lifecycle, pc, locals, effects, invocations, trace, prior>>

NoPrior ==
    [ taken |-> FALSE, calendarPresent |-> FALSE, console |-> <<>>,
      calendars |-> <<>>, renders |-> <<>> ]

\* A freshly loaded page, before the script has run.
Fresh ==
    /\ readyState = "loading"
    /\ listeners = {}
    /\ scriptRanAt = "never"
    /\ pc = "idle"
    /\ calendarEl = "null"
    /\ eventsData = "null"
    /\ events = Undefined
    /\ console = <<>>
    /\ calendars = <<>>
    /\ renders = <<>>
    /\ shown = FALSE
    /\ thrown = "none"
    /\ invocations = 0
    /\ trace = <<>>

Init ==
    /\ calendarPresent \in BOOLEAN
    /\ dataPresent \in BOOLEAN
    /\ textContent \in (IF dataPresent THEN Texts ELSE {<<>>})
    /\ Fresh
    /\ prior = NoPrior

\* Mutant of RunScript: the handler is not registered for DOMContentLoaded.
RunScriptNoListener ==
    /\ scriptRanAt = "never"
    /\ pc \in {"idle", "done"}
    /\ scriptRanAt' = readyState
    /\ UNCHANGED <<page, readyState, listeners, pc, locals, effects, invocations,
                   trace, prior>>

\* Line 1: the script runs and registers the handler.
RunScript ==
    /\ scriptRanAt = "never"
    /\ pc \in {"idle", "done"}
    /\ listeners' = listeners \cup {"init"}
    /\ scriptRanAt' = readyState
    /\ UNCHANGED <<page, readyState, pc, locals, effects, invocations, trace, prior>>

\* The browser dispatches DOMContentLoaded, once, to the handlers registered.
FireDOMContentLoaded ==
    /\ readyState = "loading"
    /\ pc = "idle"
    /\ readyState' = "interactive"
    /\ IF listeners # {}
       THEN pc' = "lookup" /\ invocations' = invocations + 1
       ELSE UNCHANGED <<pc, invocations>>
    /\ UNCHANGED <<page, listeners, scriptRanAt, locals, effects, trace, prior>>

\* Mutant of LookupStep: the check of the data container is missing.
LookupStepNoGuard ==
    /\ pc = "lookup"
    /\ calendarEl' = GetElementById("calendar", calendarPresent)
    /\ eventsData' = GetElementById("events-data", dataPresent)
    /\ trace' = Append(trace, "check")
    /\ events' = ArrayValue(<<>>)
    /\ pc' = "parse"
    /\ UNCHANGED <<page, lifecycle, effects, invocations, prior>>

\* Mutant of LookupStep: the mount element is checked as well.
LookupStepGuardsMount ==
    /\ pc = "lookup"
    /\ calendarEl' = GetElementById("calendar", calendarPresent)
    /\ eventsData' = GetElementById("events-data", dataPresent)
    /\ trace' = Append(trace, "check")
    /\ IF eventsData' = "null" \/ calendarEl' = "null"
       THEN /\ console' = Append(console, LogEntry("error", MsgMissing, <<>>))
            /\ pc' = "done"
            /\ UNCHANGED events
       ELSE /\ events' = ArrayValue(<<>>)
            /\ pc' = "parse"
            /\ UNCHANGED console
    /\ UNCHANGED <<page, lifecycle, calendars, renders, shown, thrown, invocations, prior>>

\* Lines 2-11: look the two elements up; abort when the data container is missing.
LookupStep ==
    /\ pc = "lookup"
    /\ calendarEl' = GetElementById("calendar", calendarPresent)
    /\ eventsData' = GetElementById("events-data", dataPresent)
    /\ trace' = Append(trace, "check")
    /\ IF eventsData' = "null"
       THEN /\ console' = Append(console, LogEntry("error", MsgMissing, <<>>))
            /\ pc' = "done"
            /\ UNCHANGED events
       ELSE /\ events' = ArrayValue(<<>>)
            /\ pc' = "parse"
            /\ UNCHANGED console
    /\ UNCHANGED <<page, lifecycle, calendars, renders, shown, thrown, invocations, prior>>

\* Mutant of ParseStep: JSON.parse is not wrapped in try/catch.
ParseStepNoCatch ==
    /\ pc = "parse"
    /\ LET r == JSONParse(textContent) IN
       IF r.ok
       THEN /\ events' = r.value
            /\ console' = Append(console, LogEntry("log", MsgLoaded, <<r.value>>))
            /\ pc' = "construct"
            /\ UNCHANGED thrown
       ELSE /\ thrown' = "SyntaxError"
            /\ pc' = "done"
            /\ UNCHANGED <<events, console>>
    /\ trace' = Append(trace, "parse")
    /\ UNCHANGED <<page, lifecycle, calendarEl, eventsData, calendars, renders, shown,
                   invocations, prior>>

\* Mutant of ParseStep: console.log is placed after the try/catch.
ParseStepLogAfterTry ==
    /\ pc = "parse"
    /\ LET r == JSONParse(textContent) IN
       IF r.ok
       THEN /\ events' = r.value
            /\ console' = Append(console, LogEntry("log", MsgLoaded, <<r.value>>))
       ELSE /\ console' = Append(Append(console,
                                        LogEntry("error", MsgParseError, <<r.value>>)),
                                 LogEntry("log", MsgLoaded, <<events>>))
            /\ UNCHANGED events
    /\ trace' = Append(trace, "parse")
    /\ pc' = "construct"
    /\ UNCHANGED <<page, lifecycle, calendarEl, eventsData, calendars, renders, shown,
                   thrown, invocations, prior>>

\* Lines 12-17: try { events = JSON.parse(...); console.log } catch { console.error }.
ParseStep ==
    /\ pc = "parse"
    /\ LET r == JSONParse(textContent) IN
       IF r.ok
       THEN /\ events' = r.value
            /\ console' = Append(console, LogEntry("log", MsgLoaded, <<r.value>>))
       ELSE /\ console' = Append(console, LogEntry("error", MsgParseError, <<r.value>>))
            /\ UNCHANGED events
    /\ trace' = Append(trace, "parse")
    /\ pc' = "construct"
    /\ UNCHANGED <<page, lifecycle, calendarEl, eventsData, calendars, renders, shown,
                   thrown, invocations, prior>>

\* Mutant of ConstructStep: the view is constructed and never rendered.
ConstructStepNoRender ==
    /\ pc = "construct"
    /\ calendars' = Append(calendars, NewCalendar(calendarEl, Config(events)))
    /\ trace' = Append(trace, "construct")
    /\ pc' = "done"
    /\ UNCHANGED <<page, lifecycle, locals, console, renders, shown, thrown,
                   invocations, prior>>

\* Lines 19-38: new FullCalendar.Calendar(calendarEl, {...}).
ConstructStep ==
    /\ pc = "construct"
    /\ calendars' = Append(calendars, NewCalendar(calendarEl, Config(events)))
    /\ trace' = Append(trace, "construct")
    /\ pc' = "render"
    /\ UNCHANGED <<page, lifecycle, locals, console, renders, shown, thrown,
                   invocations, prior>>

\* Line 40: calendar.render(), on the view just constructed.
RenderStep ==
    /\ pc = "render"
    /\ renders' = Append(renders, Len(calendars))
    /\ trace' = Append(trace, "render")
    /\ \E outcome \in RenderOutcomes(calendars[Len(calendars)].el) :
          /\ shown' = (outcome = "shown")
          /\ thrown' = (IF outcome = "TypeError" THEN "TypeError" ELSE "none")
    /\ pc' = "done"
    /\ UNCHANGED <<page, lifecycle, locals, console, calendars, invocations, prior>>

HandlerStep == LookupStep \/ ParseStep \/ ConstructStep \/ RenderStep

Next ==
    \/ RunScript
    \/ FireDOMContentLoaded
    \/ LookupStep
    \/ ParseStep
    \/ ConstructStep
    \/ RenderStep

Spec == Init /\ [][Next]_vars

(***************************************************************************)
(* The same page loaded a second time with only the mount element          *)
(* changed, the first load's observable behaviour kept in prior.           *)
(***************************************************************************)
ReloadOtherMount ==
    /\ ~prior.taken
    /\ pc = "done"
    /\ prior' = [ taken |-> TRUE, calendarPresent |-> calendarPresent,
                  console |-> console, calendars |-> calendars, renders |-> renders ]
    /\ calendarPresent' = ~calendarPresent
    /\ UNCHANGED <<dataPresent, textContent>>
    /\ readyState' = "loading"
    /\ listeners' = {}
    /\ scriptRanAt' = "never"
    /\ pc' = "idle"
    /\ calendarEl' = "null"
    /\ eventsData' = "null"
    /\ events' = Undefined
    /\ console' = <<>>
    /\ calendars' = <<>>
    /\ renders' = <<>>
    /\ shown' = FALSE
    /\ thrown' = "none"
    /\ invocations' = 0
    /\ trace' = <<>>

NextPair ==
    \/ RunScript
    \/ FireDOMContentLoaded
    \/ LookupStep
    \/ ParseStep
    \/ ConstructStep
    \/ RenderStep
    \/ ReloadOtherMount

SpecPair == Init /\ [][NextPair]_vars

(***************************************************************************)
(* Properties.                                                             *)
(***************************************************************************)
Done == pc = "done"

\* Nothing of the page load is left to happen.
Settled == scriptRanAt # "never" /\ readyState = "interactive" /\ pc \in {"idle", "done"}

ParseFails == ~JSONParse(textContent).ok

ErrorEntries == {i \in 1..Len(console) : console[i].level = "error"}

FullTrace == <<"check", "parse", "construct", "render">>

IsPrefix(s, t) == Len(s) =< Len(t) /\ \A i \in 1..Len(s) : s[i] = t[i]

\* Sequences of events whose JSON text fits in the data container.
EventSeqs == UNION {[1..n -> Events] : n \in 0..((MaxLen - 1) \div 2)}

\* The JSON text of an array of events: "[" e ("," e)* "]".
Stringify(evs) ==
    IF evs = <<>> THEN <<"[", "]">>
    ELSE [i \in 1..(2 * Len(evs) + 1) |->
            IF i = 1 THEN "["
            ELSE IF i = 2 * Len(evs) + 1 THEN "]"
            ELSE IF i % 2 = 0 THEN evs[i \div 2]
            ELSE ","]

\* The array value holding exactly the events evs, in order.
ArrayOf(evs) == ArrayValue([i \in 1..Len(evs) |-> ObjectValue(evs[i])])

\* C1: when the text content is the JSON text of an array of N events, the
\* view constructed has as its events option exactly those N events, in the
\* same order, none added, dropped, duplicated or changed.
EventsPreserved ==
    \A evs \in EventSeqs :
        (pc \in {"render", "done"} /\ dataPresent /\ textContent = Stringify(evs))
            => /\ Len(calendars) = 1
               /\ calendars[1].options.events = ArrayOf(evs)
               /\ Len(calendars[1].options.events.items) = Len(evs)

EventsPreservedWitness ==
    /\ Done
    /\ textContent = <<"[", "e2", ",", "e1", "]">>
    /\ Len(calendars) = 1
    /\ calendars[1].options.events.items = <<ObjectValue("e2"), ObjectValue("e1")>>

MissingContainerAborts ==
    (~dataPresent /\ invocations > 0 /\ pc # "lookup")
        => /\ Done
           /\ console = <<LogEntry("error", MsgMissing, <<>>)>>
           /\ trace = <<"check">>
           /\ events = Undefined
           /\ calendars = <<>>
           /\ renders = <<>>
           /\ ~shown
           /\ thrown = "none"

MissingContainerAbortsWitness ==
    /\ Done
    /\ ~dataPresent
    /\ calendarPresent
    /\ Len(console) = 1
    /\ calendars = <<>>

\* C4: every view constructed has locale fr, slotMinTime 07:00:00,
\* slotMaxTime 20:00:00, allDaySlot false and initialView timeGridWeek, and
\* apart from the events option its options are the same whatever the text
\* content was, the parse-failure case included.
FixedConfiguration ==
    \A i \in 1..Len(calendars) :
        LET o == calendars[i].options IN
        /\ o.locale = "fr"
        /\ o.slotMinTime = "07:00:00"
        /\ o.slotMaxTime = "20:00:00"
        /\ o.allDaySlot = FALSE
        /\ o.initialView = "timeGridWeek"
        /\ [o EXCEPT !.events = Undefined] =
              [ initialView     |-> "timeGridWeek",
                headerToolbar   |-> [ left   |-> "prev,next today",
                                      center |-> "title",
                                      right  |-> "dayGridMonth,timeGridWeek,timeGridDay,listWeek" ],
                events          |-> Undefined,
                eventDisplay    |-> "block",
                eventTimeFormat |-> [ hour |-> "2-digit", minute |-> "2-digit",
                                      hour12 |-> FALSE ],
                locale          |-> "fr",
                height          |-> "auto",
                allDaySlot      |-> FALSE,
                slotMinTime     |-> "07:00:00",
                slotMaxTime     |-> "20:00:00" ]

FixedConfigurationWitness ==
    /\ Len(calendars) = 1
    /\ textContent = <<"[", "e1", "]">>
    /\ calendars[1].options.events.items = <<ObjectValue("e1")>>
    /\ calendars[1].options.locale = "fr"

\* C5 as stated: in every ordering of the script's execution and the
\* DOM-ready event the handler runs exactly once, never before DOM ready.
RunsExactlyOnce ==
    /\ invocations > 0 => readyState = "interactive"
    /\ Settled => invocations = 1

\* C5 amended: the handler runs at most once and never before DOM ready; it
\* runs exactly once when the script registered it before the DOM-ready
\* event, and not at all when the script ran after the event.
RunsOnceIfRegisteredBeforeReady ==
    /\ invocations =< 1
    /\ invocations > 0 => readyState = "interactive"
    /\ (Settled /\ scriptRanAt = "loading") => invocations = 1
    /\ (Settled /\ scriptRanAt = "interactive") => invocations = 0

RunsOnceWitness ==
    /\ Settled
    /\ scriptRanAt = "loading"
    /\ invocations = 1
    /\ Done

\* C6: whenever a view is constructed its events option is a sequence (an
\* array), for every text content, valid JSON that is not an array included.
EventsOptionIsSequence ==
    \A i \in 1..Len(calendars) : calendars[i].options.events.kind = "array"

\* C7: once the handler has finished, either a calendar is shown in the mount
\* element or the handler has emitted an error diagnostic, and no exception
\* has left the handler.
CalendarOrDiagnostic ==
    Done => /\ shown \/ ErrorEntries # {}
            /\ thrown = "none"

\* C8: the steps happen in the order check, parse, construct, render, at most
\* once each; render() is called exactly when a view was constructed, on that
\* view, once, and after the parse attempt; a started invocation can always
\* proceed until it ends aborted without a view or with render() called.
StepsInOrder ==
    /\ IsPrefix(trace, FullTrace)
    /\ (Len(trace) >= 2) <=> (console # <<>> /\ dataPresent)
    /\ (Len(trace) >= 3) <=> (calendars # <<>>)
    /\ (Len(trace) >= 4) <=> (renders # <<>>)
    /\ Len(calendars) =< 1
    /\ renders \in {<<>>, <<Len(calendars)>>}
    /\ Done => \/ trace = <<"check">> /\ calendars = <<>> /\ renders = <<>>
               \/ trace = FullTrace /\ Len(calendars) = 1 /\ renders = <<1>>
    /\ pc \notin {"idle", "done"} => ENABLED HandlerStep

StepsInOrderWitness ==
    /\ Done
    /\ trace = FullTrace
    /\ renders = <<1>>
    /\ Len(console) = 1

\* C9 as stated: an error diagnostic is emitted exactly when the data
\* container is missing or its text fails to deserialize, at most one per
\* invocation, and on the successful-parse path nothing reaches the log sink.
DiagnosticsOnlyOnFailure ==
    /\ Cardinality(ErrorEntries) =< 1
    /\ Done => ((ErrorEntries # {}) <=> (~dataPresent \/ ParseFails))
    /\ (Done /\ dataPresent /\ ~ParseFails) => console = <<>>

\* C9 amended: an error diagnostic is emitted exactly when the data container
\* is missing or its text fails to deserialize, at most one per invocation;
\* on the successful-parse path no error diagnostic is emitted and exactly one
\* informational message, carrying the parsed value, reaches the log sink.
ErrorDiagnosticsOnlyOnFailure ==
    /\ Cardinality(ErrorEntries) =< 1
    /\ Len(console) =< 1
    /\ Done => ((ErrorEntries # {}) <=> (~dataPresent \/ ParseFails))
    /\ (Done /\ ~dataPresent) => console[1].text = MsgMissing
    /\ (Done /\ dataPresent /\ ParseFails) => console[1].text = MsgParseError
    /\ (Done /\ dataPresent /\ ~ParseFails)
          => console = <<LogEntry("log", MsgLoaded, <<events>>)>>

ErrorDiagnosticsWitness ==
    /\ Done
    /\ textContent = <<"[", "e1", "]">>
    /\ Len(console) = 1
    /\ console[1].level = "log"
    /\ ErrorEntries = {}

\* C10: two loads of the same page that differ only in whether the mount
\* element exists emit the same diagnostics, take the same abort-or-construct
\* decision and pass the same options to the constructor, the mount argument
\* being the element or null as the page has it.
MountIndependent ==
    (prior.taken /\ Done)
        => /\ prior.calendarPresent # calendarPresent
           /\ console = prior.console
           /\ Len(calendars) = Len(prior.calendars)
           /\ Len(renders) = Len(prior.renders)
           /\ \A i \in 1..Len(calendars) :
                 /\ calendars[i].options = prior.calendars[i].options
                 /\ calendars[i].el = (IF calendarPresent THEN "calendar" ELSE "null")
                 /\ prior.calendars[i].el =
                       (IF prior.calendarPresent THEN "calendar" ELSE "null")

MountIndependentWitness ==
    /\ prior.taken
    /\ Done
    /\ ~calendarPresent
    /\ Len(calendars) = 1
    /\ calendars[1].el = "null"
    /\ calendars[1].options.events.items = <<ObjectValue("e1")>>

====
